---- MODULE Spec2Model ----
(***************************************************************************)
(* Model of the claim-validation pipeline of deepsearch-truthlayer         *)
(* (src/validation.py): extraction and claim linking, source retrieval,    *)
(* per-claim validation, trust scoring and report generation.              *)
(*                                                                         *)
(* Strings are sequences of tokens.  A token is either one whitespace      *)
(* character (" " or "\n") or a chunk of non-whitespace text, so that      *)
(* str.startswith, str.strip and re.sub(r"\s{3,}", ...) are computed on    *)
(* the text and not assumed.  Python's None is the record None; in an     *)
(* Optional[str] slot it is NoneStr, a sequence that no text equals.       *)
(* Scores are kept in tenths of a point (round(x, 1) has one decimal).     *)
(***************************************************************************)
EXTENDS Integers, Sequences, FiniteSets, TLC

VARIABLES pc, extracted, sources_with_content, vi, validation_results,
          claim_sources, calls, trust_report, ret

vars == <<pc, extracted, sources_with_content, vi, validation_results,
          claim_sources, calls, trust_report, ret>>

\* ------------------------------------------------------------------------
\* Bounds of the model
\* ------------------------------------------------------------------------
\* pipeline (validate_report end to end)
MaxClaims == 2
MaxSources == 2
\* claim linking
MaxLinkUrls == 3
MaxLinkSources == 2
\* source retrieval
MaxFetch == 2
\* validate_all_claims
MaxValClaims == 2
MaxValSources == 2
\* scorer and report generator
MaxResults == 3
MaxGrouped == 9

None == [none |-> TRUE]
NoneStr == <<"<None>">>

\* ------------------------------------------------------------------------
\* Strings
\* ------------------------------------------------------------------------
IsSpace(t) == t \in {" ", "\n"}

\* str.startswith(prefix)
StartsWith(s, prefix) ==
    /\ Len(s) >= Len(prefix)
    /\ SubSeq(s, 1, Len(prefix)) = prefix

\* length of the whitespace run of s that starts at position i
RECURSIVE SpaceRun(_, _)
SpaceRun(s, i) ==
    IF i > Len(s) \/ ~IsSpace(s[i]) THEN 0 ELSE 1 + SpaceRun(s, i + 1)

\* re.sub(r"\s{3,}", "\n\n", s), scanning from position i
RECURSIVE CollapseFrom(_, _)
CollapseFrom(s, i) ==
    IF i > Len(s) THEN <<>>
    ELSE LET run == SpaceRun(s, i)
         IN  IF run >= 3 THEN <<"\n", "\n">> \o CollapseFrom(s, i + run)
             ELSE IF run > 0 THEN SubSeq(s, i, i + run - 1) \o CollapseFrom(s, i + run)
             ELSE <<s[i]>> \o CollapseFrom(s, i + 1)

\* str.strip()
RECURSIVE LStrip(_)
LStrip(s) == IF s # <<>> /\ IsSpace(Head(s)) THEN LStrip(Tail(s)) ELSE s

RECURSIVE RStrip(_)
RStrip(s) ==
    IF s # <<>> /\ IsSpace(s[Len(s)]) THEN RStrip(SubSeq(s, 1, Len(s) - 1)) ELSE s

Strip(s) == RStrip(LStrip(s))

\* cleaned_content = re.sub(r"\s{3,}", "\n\n", result["markdown"]).strip()
CleanedContent(markdown) == Strip(CollapseFrom(markdown, 1))

\* truthiness of an Optional[str]
Truthy(content) == content # NoneStr /\ content # <<>>

\* the two error strings fetch_sources writes into Source.content
ErrorEmpty(url) ==
    <<"Error", " fetching content from ", url,
      ". Firecrawl returned empty or invalid data.">>
ErrorThrown(url, detail) ==
    <<"Error", " fetching content from ", url, ": ", detail>>

\* the sentinel of the specification: "Error fetching content from"
FetchErrorSentinel == <<"Error", " fetching content from ">>

\* ------------------------------------------------------------------------
\* Data
\* ------------------------------------------------------------------------
SeqsUpTo(S, n) == UNION {[1..k -> S] : k \in 0..n}

Statuses == {"SUPPORTED", "PARTIALLY_SUPPORTED", "CONTRADICTED", "UNVERIFIABLE"}

\* report_id = str(uuid.uuid4())[:8]
RunIds == {"4f9c2d1e"}

\* the identifiers the extraction model itself puts into its answer
LlmId == <<"llm", "id", 0>>

\* a Source / a Claim as the extraction capability returns them
LlmSource(url) == [id |-> LlmId, url |-> url, content |-> NoneStr]
LlmClaim(statement, source_urls) ==
    [id |-> LlmId, statement |-> statement,
     verification_question |-> <<"Is it true that", statement>>,
     source_urls |-> source_urls, source_ids |-> <<>>]

\* ------------------------------------------------------------------------
\* extract_claims_and_sources: id assignment and claim linking
\* ------------------------------------------------------------------------
\* for i, source in enumerate(result.sources): source.id = f"source-{report_id}-{i}"
AssignSourceIds(sources, report_id) ==
    [i \in 1..Len(sources) |->
        [sources[i] EXCEPT !.id = <<"source", report_id, i - 1>>]]

\* for i, claim in enumerate(result.claims): claim.id = f"claim-{report_id}-{i}"
AssignClaimIds(claims, report_id) ==
    [i \in 1..Len(claims) |->
        [claims[i] EXCEPT !.id = <<"claim", report_id, i - 1>>]]

\* a mapping in which the first source of a url keeps the entry
RECURSIVE UrlToSourceIdFirstFrom(_, _, _)
UrlToSourceIdFirstFrom(sources, i, d) ==
    IF i > Len(sources) THEN d
    ELSE UrlToSourceIdFirstFrom(sources, i + 1,
            [u \in (DOMAIN d) \cup {sources[i].url} |->
                IF u \in DOMAIN d THEN d[u] ELSE sources[i].id])

\* url_to_source_id = {source.url: source.id for source in result.sources}
\* (a dict comprehension: a later source with the same url replaces the entry)
RECURSIVE UrlToSourceIdFrom(_, _, _)
UrlToSourceIdFrom(sources, i, d) ==
    IF i > Len(sources) THEN d
    ELSE UrlToSourceIdFrom(sources, i + 1,
            [u \in (DOMAIN d) \cup {sources[i].url} |->
                IF u = sources[i].url THEN sources[i].id ELSE d[u]])

UrlToSourceId(sources) == UrlToSourceIdFrom(sources, 1, << >>)

\* a lookup that links a url cited twice only once
RECURSIVE LookupUrlsOnce(_, _)
LookupUrlsOnce(source_urls, d) ==
    IF source_urls = <<>> THEN <<>>
    ELSE LET rest == LookupUrlsOnce(Tail(source_urls), d)
         IN  IF Head(source_urls) \in DOMAIN d
                /\ \A k \in 1..Len(rest) : rest[k] # d[Head(source_urls)]
             THEN <<d[Head(source_urls)]>> \o rest
             ELSE rest

\* [url_to_source_id.get(url) for url in claim.source_urls if url in url_to_source_id]
RECURSIVE LookupUrls(_, _)
LookupUrls(source_urls, d) ==
    IF source_urls = <<>> THEN <<>>
    ELSE IF Head(source_urls) \in DOMAIN d
         THEN <<d[Head(source_urls)]>> \o LookupUrls(Tail(source_urls), d)
         ELSE LookupUrls(Tail(source_urls), d)

\* [source_id for source_id in claim.source_ids if source_id is not None]
NotNone(source_id) == source_id # None
DropNone(source_ids) == SelectSeq(source_ids, NotNone)

LinkClaim(claim, d) ==
    [claim EXCEPT !.source_ids = DropNone(LookupUrls(claim.source_urls, d))]

LinkClaims(claims, sources) ==
    [i \in 1..Len(claims) |-> LinkClaim(claims[i], UrlToSourceId(sources))]

\* the whole function: None when the capability raises, else the report
\* with ids assigned and claims linked
extract_claims_and_sources(answer, report_id) ==
    IF answer.kind = "raise" THEN None
    ELSE LET sources == AssignSourceIds(answer.sources, report_id)
             claims  == AssignClaimIds(answer.claims, report_id)
         IN  [claims |-> LinkClaims(claims, sources), sources |-> sources]

\* ------------------------------------------------------------------------
\* fetch_sources: the content one scrape leaves in Source.content
\* ------------------------------------------------------------------------
\* what firecrawl_app.scrape_url(source.url, ...) can do:
\*   raise      it throws
\*   falsy      it returns None or an empty dict
\*   nokey      it returns a dict without the key "markdown"
\*   markdown   it returns a dict with result["markdown"] (a str, or None)
ScrapedContent(url, result) ==
    IF result.kind = "raise" THEN ErrorThrown(url, result.detail)
    ELSE IF result.kind = "markdown"
         THEN IF result.markdown = NoneStr
              THEN ErrorThrown(url, "expected string or bytes-like object")
              ELSE CleanedContent(result.markdown)
         ELSE ErrorEmpty(url)

\* ------------------------------------------------------------------------
\* validate_claim
\* ------------------------------------------------------------------------
InSeq(x, seq) == \E i \in 1..Len(seq) : seq[i] = x

\* an evidence filter that looks at the link only, not at the content
IsClaimSourceByIdOnly(s, claim) == InSeq(s.id, claim.source_ids)

\* s.id in claim.source_ids and s.content and not s.content.startswith("Error")
IsClaimSource(s, claim) ==
    /\ InSeq(s.id, claim.source_ids)
    /\ Truthy(s.content)
    /\ ~StartsWith(s.content, <<"Error">>)

ClaimSources(claim, sources) ==
    LET Keep(s) == IsClaimSource(s, claim)
    IN  SelectSeq(sources, Keep)

\* a validate_claim that returns None for a claim without source content
NoSourceResultDropped(claim) == None

NoSourceResult(claim) ==
    [claim_id |-> claim.id, statement |-> claim.statement,
     verification_question |-> claim.verification_question,
     status |-> "UNVERIFIABLE", confidence |-> 0,
     reasoning |-> <<"No valid source content available for this claim after fetching.">>,
     has_contradictions |-> FALSE]

ErrorResult(claim, detail) ==
    [claim_id |-> claim.id, statement |-> claim.statement,
     verification_question |-> claim.verification_question,
     status |-> "UNVERIFIABLE", confidence |-> 0,
     reasoning |-> <<"Validation failed due to an error: ", detail>>,
     has_contradictions |-> FALSE]

\* a FilledResult that trusts the claim_id of the capability's answer
FilledResultKeepingId(claim, result) ==
    [result EXCEPT !.statement = claim.statement,
                   !.verification_question = claim.verification_question]

\* result.claim_id = claim.id; result.statement = ...; result.verification_question = ...
FilledResult(claim, result) ==
    [result EXCEPT !.claim_id = claim.id,
                   !.statement = claim.statement,
                   !.verification_question = claim.verification_question]

\* a validate_claim without the except branch's result: a failed judgment
\* gives no result for the claim
JudgedResultDropped(claim, verdict) ==
    IF verdict.kind = "result" THEN FilledResult(claim, verdict.result)
    ELSE None

\* what validator_client.chat.completions.create(...) can do:
\*   raise    it throws (after its one retry)
\*   none     it returns None: result.claim_id = ... throws AttributeError
\*   result   it returns a ValidationResult of its own making
JudgedResult(claim, verdict) ==
    IF verdict.kind = "result" THEN FilledResult(claim, verdict.result)
    ELSE IF verdict.kind = "none"
         THEN ErrorResult(claim, "'NoneType' object has no attribute 'claim_id'")
         ELSE ErrorResult(claim, verdict.detail)

validate_claim(claim, sources, verdict) ==
    IF ClaimSources(claim, sources) = <<>> THEN NoSourceResult(claim)
    ELSE JudgedResult(claim, verdict)

\* ------------------------------------------------------------------------
\* calculate_trust_score (scores in tenths of a point, weights in tenths)
\* ------------------------------------------------------------------------
Min(a, b) == IF a < b THEN a ELSE b
Max(a, b) == IF a > b THEN a ELSE b

\* a weight table that gives UNVERIFIABLE nothing
WeightUnverifiableZero(status) ==
    CASE status = "SUPPORTED" -> 10
      [] status = "PARTIALLY_SUPPORTED" -> 5
      [] OTHER -> 0

\* weights.get(result.status, 0.0)
Weight(status) ==
    CASE status = "SUPPORTED" -> 10
      [] status = "PARTIALLY_SUPPORTED" -> 5
      [] status = "CONTRADICTED" -> 0
      [] status = "UNVERIFIABLE" -> 2
      [] OTHER -> 0

\* a sum that scales each weight by the confidence of its result
RECURSIVE ScoreSumByConfidence(_)
ScoreSumByConfidence(results) ==
    IF results = <<>> THEN 0
    ELSE (Weight(Head(results).status) * Head(results).confidence) \div 10
         + ScoreSumByConfidence(Tail(results))

RECURSIVE ScoreSum(_)
ScoreSum(results) ==
    IF results = <<>> THEN 0
    ELSE Weight(Head(results).status) + ScoreSum(Tail(results))

RECURSIVE ContradictionsWithinClaim(_)
ContradictionsWithinClaim(results) ==
    IF results = <<>> THEN 0
    ELSE (IF Head(results).has_contradictions THEN 1 ELSE 0)
         + ContradictionsWithinClaim(Tail(results))

\* a penalty without its cap
ContradictionPenaltyUncapped(contradictions_within_claim) ==
    contradictions_within_claim * 5

\* contradiction_penalty = min(20, contradictions_within_claim * 5), in points
ContradictionPenalty(contradictions_within_claim) ==
    Min(20, contradictions_within_claim * 5)

\* round(num / den, 1) for a score of num / den tenths of a point.  The
\* float that Python rounds carries the binary error of the sum of the
\* weights, so a score that is a decimal tie (x.x5) is rounded up or down
\* depending on that error: tie_up says which.
Round1(num, den, tie_up) ==
    LET q == num \div den
        r == num % den
    IN  IF 2 * r < den THEN q
        ELSE IF 2 * r > den THEN q + 1
        ELSE IF tie_up THEN q + 1 ELSE q

calculate_trust_score(results, tie_up) ==
    IF results = <<>> THEN 0
    ELSE LET score_sum == ScoreSum(results)
             max_score == Len(results)
             \* trust_score = (score_sum / max_score) * 100, as the
             \* fraction num / max_score of tenths of a point
             num       == score_sum * 100
             contradictions_within_claim == ContradictionsWithinClaim(results)
             penalized ==
                 IF contradictions_within_claim > 0
                 THEN Max(0, num - ContradictionPenalty(contradictions_within_claim)
                                     * 10 * max_score)
                 ELSE num
         IN  Round1(penalized, max_score, tie_up)

\* ------------------------------------------------------------------------
\* generate_trust_report
\* ------------------------------------------------------------------------
\* a tally that leaves the UNVERIFIABLE results out
RECURSIVE StatusCountsVerifiableOnly(_, _)
StatusCountsVerifiableOnly(results, status_counts) ==
    IF results = <<>> THEN status_counts
    ELSE StatusCountsVerifiableOnly(Tail(results),
            IF Head(results).status = "UNVERIFIABLE" THEN status_counts
            ELSE [status_counts EXCEPT ![Head(results).status] = @ + 1])

\* for result in validation_results: status_counts[result.status] += 1
RECURSIVE StatusCounts(_, _)
StatusCounts(results, status_counts) ==
    IF results = <<>> THEN status_counts
    ELSE StatusCounts(Tail(results),
            [status_counts EXCEPT ![Head(results).status] = @ + 1])

\* a flag that reports a CONTRADICTED claim instead of sources that disagree
AnyContradictionsByStatus(results) ==
    \E i \in 1..Len(results) : results[i].status = "CONTRADICTED"

AnyContradictions(results) ==
    \E i \in 1..Len(results) : results[i].has_contradictions

generate_trust_report(results, tie_up, report_id) ==
    [id |-> report_id,
     timestamp |-> "now",
     trust_score |-> calculate_trust_score(results, tie_up),
     claim_count |-> Len(results),
     results |-> StatusCounts(results, [s \in Statuses |-> 0]),
     has_contradictions |-> AnyContradictions(results)]

\* ------------------------------------------------------------------------
\* Inputs: what the three capabilities answer
\* ------------------------------------------------------------------------
GoodPage == <<"Lincoln", " ", "1809">>

\* a fetched page whose own text begins with the word "Error"
ErrorPage == <<"Error", " ", "404">>

LlmResult(status, confidence, has_contradictions) ==
    [claim_id |-> LlmId, statement |-> "llm statement",
     verification_question |-> <<"llm question">>,
     status |-> status, confidence |-> confidence,
     reasoning |-> <<"llm reasoning">>,
     has_contradictions |-> has_contradictions]

Raise(detail) == [kind |-> "raise", detail |-> detail]
Markdown(markdown) == [kind |-> "markdown", markdown |-> markdown]
Verdict(status, confidence, has_contradictions) ==
    [kind |-> "result", result |-> LlmResult(status, confidence, has_contradictions)]
Report(claims, sources) == [kind |-> "report", claims |-> claims, sources |-> sources]

\* end-to-end runs
PipeUrls == {"u1", "u2"}
PipeCitations == {<<>>, <<"u1">>, <<"u2">>, <<"u1", "u2">>}
PipeAnswers ==
    {[kind |-> "raise"]} \cup
    {Report(cs, ss) :
        cs \in SeqsUpTo({LlmClaim("claim text", c) : c \in PipeCitations}, MaxClaims),
        ss \in SeqsUpTo({LlmSource(u) : u \in PipeUrls}, MaxSources)}
PipeScrapes == {Raise("timeout"), Markdown(GoodPage), Markdown(ErrorPage)}
PipeVerdicts ==
    {Raise("quota"), Verdict("SUPPORTED", 9, FALSE), Verdict("CONTRADICTED", 15, TRUE)}

\* ------------------------------------------------------------------------
\* the result page: the sources shown with a claim
\* ------------------------------------------------------------------------
\* zip(a, b): the pairs up to the end of the shorter list
zip(a, b) == [k \in 1..Min(Len(a), Len(b)) |-> <<a[k], b[k]>>]

\* for src_id, src_url in zip(source_ids_for_claim, source_urls_for_claim):
\* the (id, url) pairs of the lines under "Sources Used for this Claim"
SourcesUsedForClaim(claim) == zip(claim.source_ids, claim.source_urls)

\* ------------------------------------------------------------------------
\* Operations
\* ------------------------------------------------------------------------
\* Pydantic's truthiness of "extracted" and of "extracted.claims"
NothingExtracted == extracted = None \/ extracted.claims = <<>>

\* the "Validate Report" button is disabled unless initialize_clients
\* succeeded, so validate_report always gets a Firecrawl client
firecrawl_app == TRUE

\* extract_claims_and_sources(report_text, extractor_client)
ExtractClaimsAndSources(answers) ==
    /\ pc = "extract"
    /\ \E answer \in answers, report_id \in RunIds :
          extracted' = extract_claims_and_sources(answer, report_id)
    /\ calls' = Append(calls, [cap |-> "extract"])
    /\ pc' = "check"
    /\ UNCHANGED <<sources_with_content, vi, validation_results,
                   claim_sources, trust_report, ret>>

\* validate_report, from the test of "extracted" to the call of fetch_sources
CheckExtracted ==
    /\ pc = "check"
    /\ IF NothingExtracted
       THEN /\ pc' = "done"
            /\ ret' = None
            /\ UNCHANGED sources_with_content
       ELSE IF extracted.sources = <<>>
            THEN /\ pc' = "validate"
                 /\ sources_with_content' = <<>>
                 /\ UNCHANGED ret
            ELSE IF ~firecrawl_app
                 THEN /\ pc' = "validate"
                      /\ sources_with_content' = extracted.sources
                      /\ UNCHANGED ret
                 ELSE /\ pc' = "fetch"
                      /\ sources_with_content' = <<>>
                      /\ UNCHANGED ret
    /\ UNCHANGED <<extracted, vi, validation_results, claim_sources, calls,
                   trust_report>>

\* a loop of fetch_sources without the try/except: a scrape that throws
\* ends the retrieval
FetchSourceUncaught(scrapes) ==
    /\ pc = "fetch"
    /\ Len(sources_with_content) < Len(extracted.sources)
    /\ LET i == Len(sources_with_content) + 1
           source == extracted.sources[i]
       IN  \E result \in scrapes :
              LET fetched == [source EXCEPT !.content = ScrapedContent(source.url, result)]
              IN  IF result.kind = "raise"
                  THEN /\ pc' = "validate"
                       /\ calls' = Append(calls, [cap |-> "scrape", url |-> source.url,
                                                  result |-> result])
                       /\ UNCHANGED <<extracted, sources_with_content>>
                  ELSE /\ extracted' = [extracted EXCEPT !.sources[i] = fetched]
                       /\ sources_with_content' = Append(sources_with_content, fetched)
                       /\ calls' = Append(calls, [cap |-> "scrape", url |-> source.url,
                                                  result |-> result])
                       /\ UNCHANGED pc
    /\ UNCHANGED <<vi, validation_results, claim_sources, trust_report, ret>>

\* one iteration of the loop of fetch_sources: "sources_with_content" is
\* the list fetched_sources, and source.content is assigned in place
FetchSource(scrapes) ==
    /\ pc = "fetch"
    /\ Len(sources_with_content) < Len(extracted.sources)
    /\ LET i == Len(sources_with_content) + 1
           source == extracted.sources[i]
       IN  \E result \in scrapes :
              LET fetched == [source EXCEPT !.content = ScrapedContent(source.url, result)]
              IN  /\ extracted' = [extracted EXCEPT !.sources[i] = fetched]
                  /\ sources_with_content' = Append(sources_with_content, fetched)
                  /\ calls' = Append(calls, [cap |-> "scrape", url |-> source.url,
                                             result |-> result])
    /\ UNCHANGED <<pc, vi, validation_results, claim_sources, trust_report, ret>>

\* a fetch_sources that can return before its loop has reached the last
\* source
FetchReturnEarly ==
    /\ pc = "fetch"
    /\ pc' = "validate"
    /\ UNCHANGED <<extracted, sources_with_content, vi, validation_results,
                   claim_sources, calls, trust_report, ret>>

\* return fetched_sources
FetchReturn ==
    /\ pc = "fetch"
    /\ Len(sources_with_content) = Len(extracted.sources)
    /\ pc' = "validate"
    /\ UNCHANGED <<extracted, sources_with_content, vi, validation_results,
                   claim_sources, calls, trust_report, ret>>

\* results.append(result) under "if result:"
AppendResult(results, result) ==
    IF result # None THEN Append(results, result) ELSE results

\* one iteration of the loop of validate_all_claims, for a claim without
\* usable source content: no call of the judgment capability
ValidateClaimNoSource ==
    /\ pc = "validate"
    /\ vi < Len(extracted.claims)
    /\ LET claim == extracted.claims[vi + 1]
       IN  /\ ClaimSources(claim, sources_with_content) = <<>>
           /\ validation_results' =
                 AppendResult(validation_results,
                              validate_claim(claim, sources_with_content, None))
           /\ claim_sources' = Append(claim_sources, <<>>)
    /\ vi' = vi + 1
    /\ UNCHANGED <<pc, extracted, sources_with_content, calls, trust_report, ret>>

\* one iteration of the loop of validate_all_claims, for a claim with
\* source content: one call of the judgment capability
ValidateClaimJudged(verdicts) ==
    /\ pc = "validate"
    /\ vi < Len(extracted.claims)
    /\ LET claim == extracted.claims[vi + 1]
           evidence == ClaimSources(claim, sources_with_content)
       IN  /\ evidence # <<>>
           /\ \E verdict \in verdicts :
                 /\ validation_results' =
                       AppendResult(validation_results,
                                    validate_claim(claim, sources_with_content, verdict))
                 /\ calls' = Append(calls, [cap |-> "judge", claim_id |-> claim.id,
                                            evidence |-> evidence, verdict |-> verdict])
           /\ claim_sources' = Append(claim_sources, evidence)
    /\ vi' = vi + 1
    /\ UNCHANGED <<pc, extracted, sources_with_content, trust_report, ret>>

\* return results, and validate_report's test "if not validation_results"
ValidateReturn ==
    /\ pc = "validate"
    /\ vi = Len(extracted.claims)
    /\ IF validation_results = <<>>
       THEN pc' = "done" /\ ret' = None
       ELSE pc' = "report" /\ UNCHANGED ret
    /\ UNCHANGED <<extracted, sources_with_content, vi, validation_results,
                   claim_sources, calls, trust_report>>

\* generate_trust_report(validation_results) and the return of the triple
GenerateReport ==
    /\ pc = "report"
    /\ \E tie_up \in BOOLEAN, report_id \in RunIds :
          /\ trust_report' = generate_trust_report(validation_results, tie_up, report_id)
          /\ ret' = [trust_report |-> trust_report',
                     validation_results |-> validation_results,
                     extracted |-> extracted]
    /\ pc' = "done"
    /\ UNCHANGED <<extracted, sources_with_content, vi, validation_results,
                   claim_sources, calls>>

\* ------------------------------------------------------------------------
\* validate_report, end to end
\* ------------------------------------------------------------------------
Init ==
    /\ pc = "extract"
    /\ extracted = None
    /\ sources_with_content = <<>>
    /\ vi = 0
    /\ validation_results = <<>>
    /\ claim_sources = <<>>
    /\ calls = <<>>
    /\ trust_report = None
    /\ ret = None

Next ==
    \/ ExtractClaimsAndSources(PipeAnswers)
    \/ CheckExtracted
    \/ FetchSource(PipeScrapes)
    \/ FetchReturn
    \/ ValidateClaimNoSource
    \/ ValidateClaimJudged(PipeVerdicts)
    \/ ValidateReturn
    \/ GenerateReport

Spec == Init /\ [][Next]_vars

\* ------------------------------------------------------------------------
\* Extraction and claim linking alone
\* ------------------------------------------------------------------------
\* "u3" is cited by claims but is never the url of a source
LinkSourceUrls == {"u1", "u2"}
LinkCitedUrls == {"u1", "u2", "u3"}
LinkAnswers(max_urls, max_sources) ==
    {[kind |-> "raise"]} \cup
    {Report(cs, ss) :
        cs \in SeqsUpTo({LlmClaim("claim text", c) :
                            c \in SeqsUpTo(LinkCitedUrls, max_urls)}, 2),
        ss \in SeqsUpTo({LlmSource(u) : u \in LinkSourceUrls}, max_sources)}

NextLink == ExtractClaimsAndSources(LinkAnswers(MaxLinkUrls, MaxLinkSources))

SpecLink == Init /\ [][NextLink]_vars

\* ------------------------------------------------------------------------
\* fetch_sources alone
\* ------------------------------------------------------------------------
Pages ==
    {<<>>,
     <<" ", "\n", " ", "\n">>,
     GoodPage,
     <<"\n", "Lincoln", " ", " ", "\n", "1809", " ", " ", "born", "\n">>,
     ErrorPage}

FetchScrapes ==
    {Raise("timeout"), [kind |-> "falsy"], [kind |-> "nokey"], Markdown(NoneStr)}
    \cup {Markdown(page) : page \in Pages}

FetchInputs ==
    {AssignSourceIds(ss, report_id) :
        ss \in SeqsUpTo({LlmSource(u) : u \in PipeUrls}, MaxFetch) \ {<<>>},
        report_id \in RunIds}

InitFetch ==
    /\ pc = "fetch"
    /\ \E sources \in FetchInputs : extracted = [claims |-> <<>>, sources |-> sources]
    /\ sources_with_content = <<>>
    /\ vi = 0
    /\ validation_results = <<>>
    /\ claim_sources = <<>>
    /\ calls = <<>>
    /\ trust_report = None
    /\ ret = None

NextFetch == FetchSource(FetchScrapes) \/ FetchReturn

SpecFetch == InitFetch /\ [][NextFetch]_vars

\* ------------------------------------------------------------------------
\* validate_all_claims alone
\* ------------------------------------------------------------------------
ValSourceId(i) == <<"source", "4f9c2d1e", i>>

ValContents(url) ==
    {NoneStr, <<>>, ErrorEmpty(url), ErrorThrown(url, "timeout"), GoodPage, ErrorPage}

\* source lists whose i-th source has the i-th id and any content
ValSources ==
    UNION {{[i \in 1..k |-> [id |-> ValSourceId(i - 1), url |-> "u1",
                             content |-> contents[i]]] :
              contents \in [1..k -> ValContents("u1")]} : k \in 0..MaxValSources}

ValLinks ==
    {<<>>, <<ValSourceId(0)>>, <<ValSourceId(1)>>, <<ValSourceId(0), ValSourceId(1)>>}

ValClaims ==
    {AssignClaimIds(cs, "4f9c2d1e") :
        cs \in SeqsUpTo({[LlmClaim("claim text", <<>>) EXCEPT !.source_ids = l] :
                            l \in ValLinks}, MaxValClaims)}

ValVerdicts ==
    {Raise("quota"), [kind |-> "none"],
     Verdict("SUPPORTED", 9, FALSE), Verdict("PARTIALLY_SUPPORTED", 5, TRUE),
     Verdict("CONTRADICTED", 15, TRUE), Verdict("UNVERIFIABLE", 3, FALSE)}

InitValidate ==
    /\ pc = "validate"
    /\ \E claims \in ValClaims, sources \in ValSources :
          /\ extracted = [claims |-> claims, sources |-> sources]
          /\ sources_with_content = sources
    /\ vi = 0
    /\ validation_results = <<>>
    /\ claim_sources = <<>>
    /\ calls = <<>>
    /\ trust_report = None
    /\ ret = None

NextValidate ==
    \/ ValidateClaimNoSource
    \/ ValidateClaimJudged(ValVerdicts)
    \/ ValidateReturn

SpecValidate == InitValidate /\ [][NextValidate]_vars

\* ------------------------------------------------------------------------
\* calculate_trust_score and generate_trust_report alone
\* ------------------------------------------------------------------------
ScoredResult(status, confidence, has_contradictions) ==
    [LlmResult(status, confidence, has_contradictions) EXCEPT
        !.claim_id = <<"claim", "4f9c2d1e", 0>>, !.statement = "claim text"]

\* a list of results with these statuses and flags, in this order; the
\* results of one list share their confidence
AnyResults(kinds, confidence) ==
    [i \in 1..Len(kinds) |-> ScoredResult(kinds[i][1], confidence, kinds[i][2])]

Block(result, n) == [i \in 1..n |-> result]

\* the tuples of k naturals whose sum is at most total
RECURSIVE CountsUpTo(_, _)
CountsUpTo(k, total) ==
    IF k = 0 THEN {<<>>}
    ELSE UNION {{<<a>> \o rest : rest \in CountsUpTo(k - 1, total - a)} : a \in 0..total}

GroupedKinds ==
    <<<<"SUPPORTED", TRUE>>, <<"SUPPORTED", FALSE>>,
      <<"PARTIALLY_SUPPORTED", TRUE>>, <<"PARTIALLY_SUPPORTED", FALSE>>,
      <<"CONTRADICTED", TRUE>>, <<"CONTRADICTED", FALSE>>,
      <<"UNVERIFIABLE", TRUE>>, <<"UNVERIFIABLE", FALSE>>>>

RECURSIVE Blocks(_, _, _)
Blocks(counts, k, confidence) ==
    IF k > Len(counts) THEN <<>>
    ELSE Block(ScoredResult(GroupedKinds[k][1], confidence, GroupedKinds[k][2]), counts[k])
         \o Blocks(counts, k + 1, confidence)

\* the list of results that is grouped by status, the results with
\* has_contradictions first within a status, with these group sizes
GroupedResults(counts) == Blocks(counts, 1, 9)

InitScore ==
    /\ pc = "report"
    /\ extracted = None
    /\ sources_with_content = <<>>
    /\ vi = 0
    /\ \/ \E kinds \in SeqsUpTo(Statuses \X BOOLEAN, MaxResults), confidence \in {0, 9} :
             validation_results = AnyResults(kinds, confidence)
       \/ \E counts \in CountsUpTo(Len(GroupedKinds), MaxGrouped) :
             validation_results = GroupedResults(counts)
    /\ claim_sources = <<>>
    /\ calls = <<>>
    /\ trust_report = None
    /\ ret = None

NextScore == GenerateReport

SpecScore == InitScore /\ [][NextScore]_vars

\* ------------------------------------------------------------------------
\* Properties
\* ------------------------------------------------------------------------
Claims == extracted.claims

JudgeCalls == {k \in 1..Len(calls) : calls[k].cap = "judge"}
ScrapeCalls == {k \in 1..Len(calls) : calls[k].cap = "scrape"}

\* C1: validate_all_claims gives exactly one result per claim, in the order
\* of the claims, and the claim_id, statement and verification_question of
\* the i-th result are those of the i-th claim, whatever the judgment
\* capability answered.
C1_OneResultPerClaim ==
    /\ Len(validation_results) = vi
    /\ \A i \in 1..Len(validation_results) :
          /\ validation_results[i].claim_id = Claims[i].id
          /\ validation_results[i].statement = Claims[i].statement
          /\ validation_results[i].verification_question = Claims[i].verification_question
    /\ pc # "validate" => Len(validation_results) = Len(Claims)

\* two claims validated, one judged by the capability (which answered with
\* its own claim_id) and one whose judgment call raised
C1_Witness ==
    /\ pc # "validate"
    /\ Len(Claims) = 2
    /\ \E k \in JudgeCalls : calls[k].verdict.kind = "result"
    /\ \E k \in JudgeCalls : calls[k].verdict.kind = "raise"

\* C2: validate_report returns null exactly when extraction failed or gave
\* no claim; otherwise it returns the triple, with one result per extracted
\* claim and claim_count the number of extracted claims.
C2_NullOnlyWithoutClaims ==
    pc = "done" =>
        /\ (ret = None) <=> NothingExtracted
        /\ ret # None =>
              /\ ret.extracted = extracted
              /\ Len(ret.validation_results) = Len(Claims)
              /\ ret.trust_report.claim_count = Len(Claims)

\* a finished run with claims in which every scrape failed
C2_Witness ==
    /\ pc = "done"
    /\ ret # None
    /\ ScrapeCalls # {}
    /\ \A k \in ScrapeCalls : calls[k].result.kind # "markdown"

\* the evidence set of the specification is empty: every linked source has
\* null or empty content, or the content of a failed fetch
NoEvidence(claim) ==
    \A j \in 1..Len(sources_with_content) :
        InSeq(sources_with_content[j].id, claim.source_ids) =>
            \/ sources_with_content[j].content = NoneStr
            \/ sources_with_content[j].content = <<>>
            \/ StartsWith(sources_with_content[j].content, FetchErrorSentinel)

\* C3: a claim whose evidence set is empty gets UNVERIFIABLE, confidence
\* 0.0 and has_contradictions false without a call of the judgment
\* capability, and the capability is called only for claims whose evidence
\* set is not empty.
C3_NoEvidenceNoCall ==
    /\ \A i \in 1..Len(validation_results) :
          NoEvidence(Claims[i]) =>
              /\ validation_results[i].status = "UNVERIFIABLE"
              /\ validation_results[i].confidence = 0
              /\ ~validation_results[i].has_contradictions
              /\ \A k \in JudgeCalls : calls[k].claim_id # Claims[i].id
    /\ \A k \in JudgeCalls :
          \A i \in 1..Len(Claims) :
              Claims[i].id = calls[k].claim_id => ~NoEvidence(Claims[i])

\* a validated claim that is linked to a source whose fetch failed and has
\* no evidence, next to a claim that was judged
C3_Witness ==
    /\ JudgeCalls # {}
    /\ \E i \in 1..Len(validation_results) :
          /\ NoEvidence(Claims[i])
          /\ \E j \in 1..Len(sources_with_content) :
                /\ InSeq(sources_with_content[j].id, Claims[i].source_ids)
                /\ StartsWith(sources_with_content[j].content, FetchErrorSentinel)

\* membership in the evidence set as the specification words it
InEvidenceSet(s, claim) ==
    /\ InSeq(s.id, claim.source_ids)
    /\ s.content # NoneStr
    /\ s.content # <<>>
    /\ ~StartsWith(s.content, FetchErrorSentinel)

\* C4: the sources validate_claim keeps for a claim are exactly the linked
\* sources with non-empty content that does not start with "Error fetching
\* content from".
C4_EvidenceIsLinkedFetched ==
    \A i \in 1..Len(claim_sources) :
        LET InSet(s) == InEvidenceSet(s, Claims[i])
        IN  claim_sources[i] = SelectSeq(sources_with_content, InSet)

\* C5: when fetch_sources has returned, the content of every source is the
\* non-empty cleaned text of its successful scrape or begins with "Error
\* fetching content from <url>"; no source has null or empty content.
C5_ContentIsTextOrSentinel ==
    (pc = "validate" /\ ScrapeCalls # {}) =>
        \A j \in 1..Len(sources_with_content) :
            LET s == sources_with_content[j]
                result == calls[j].result
            IN  /\ s.content # NoneStr
                /\ s.content # <<>>
                /\ \/ StartsWith(s.content, FetchErrorSentinel \o <<s.url>>)
                   \/ /\ result.kind = "markdown"
                      /\ result.markdown # NoneStr
                      /\ s.content = CleanedContent(result.markdown)

\* C6: fetch_sources scrapes every source once, in the order of the list,
\* and returns the same sources in the same order; the content of a source
\* is what its own scrape left, whatever happened to the other scrapes.
C6_EverySourceFetchedInOrder ==
    LET k == Len(sources_with_content)
    IN  /\ k <= Len(extracted.sources)
        /\ Len(calls) = k
        /\ \A j \in 1..k :
              /\ calls[j].cap = "scrape"
              /\ calls[j].url = extracted.sources[j].url
              /\ sources_with_content[j] = extracted.sources[j]
              /\ calls[j].result.kind = "raise" =>
                    StartsWith(extracted.sources[j].content,
                               FetchErrorSentinel \o <<extracted.sources[j].url>>)
              /\ (calls[j].result.kind = "markdown" /\ calls[j].result.markdown = GoodPage)
                    => extracted.sources[j].content = GoodPage
        /\ \A j \in (k + 1)..Len(extracted.sources) :
              extracted.sources[j].content = NoneStr
        /\ pc = "validate" => k = Len(extracted.sources)

\* the scrape of the first source threw and the second source was fetched
C6_Witness ==
    /\ pc = "validate"
    /\ Len(sources_with_content) >= 2
    /\ calls[1].result.kind = "raise"
    /\ calls[2].result.kind = "markdown"
    /\ sources_with_content[2].content = GoodPage

SourceUrls == {extracted.sources[j].url : j \in 1..Len(extracted.sources)}
SourceIds == {extracted.sources[j].id : j \in 1..Len(extracted.sources)}

\* the url of the source that has this id (ids are unique within a run)
UrlOfId(source_id) ==
    LET j == CHOOSE j \in 1..Len(extracted.sources) : extracted.sources[j].id = source_id
    IN  extracted.sources[j].url

Occurrences(seq, x) == Cardinality({k \in 1..Len(seq) : seq[k] = x})

\* C7: after linking, source_ids is the image of source_urls under the
\* url-to-id mapping, in order and with the unmatched urls dropped: every
\* id is the id of a source, there are no more ids than urls and fewer
\* when a cited url has no source, a url cited k times gives k ids, and no
\* url gives no id.
C7_LinkedIdsImageOfUrls ==
    (pc = "check" /\ extracted # None) =>
        \A i \in 1..Len(Claims) :
            LET claim == Claims[i]
                Matched(url) == url \in SourceUrls
            IN  /\ \A k \in 1..Len(claim.source_ids) : claim.source_ids[k] \in SourceIds
                /\ Len(claim.source_ids) = Len(SelectSeq(claim.source_urls, Matched))
                /\ \A k \in 1..Len(claim.source_ids) :
                      UrlOfId(claim.source_ids[k])
                          = SelectSeq(claim.source_urls, Matched)[k]
                /\ Len(claim.source_ids) <= Len(claim.source_urls)
                /\ (\E k \in 1..Len(claim.source_urls) : ~Matched(claim.source_urls[k]))
                      => Len(claim.source_ids) < Len(claim.source_urls)
                /\ \A url \in SourceUrls :
                      Cardinality({k \in 1..Len(claim.source_ids) :
                                      UrlOfId(claim.source_ids[k]) = url})
                          = Occurrences(claim.source_urls, url)
                /\ claim.source_urls = <<>> => claim.source_ids = <<>>

\* a claim that cites one url twice and a url that no source has
C7_Witness ==
    /\ pc = "check"
    /\ extracted # None
    /\ \E i \in 1..Len(Claims) :
          /\ Claims[i].source_urls = <<"u1", "u3", "u1">>
          /\ Len(Claims[i].source_ids) = 2
          /\ Claims[i].source_ids[1] = Claims[i].source_ids[2]

\* the number of results with this status
CountStatus(results, status) ==
    Cardinality({i \in 1..Len(results) : results[i].status = status})

CountFlagged(results) ==
    Cardinality({i \in 1..Len(results) : results[i].has_contradictions})

\* n times the score of the formula, in tenths of a point:
\* max(0, (sum of weights / n) * 100 - min(20, 5 * flagged))
FormulaTimesN(results) ==
    LET n == Len(results)
        weights == 10 * CountStatus(results, "SUPPORTED")
                   + 5 * CountStatus(results, "PARTIALLY_SUPPORTED")
                   + 0 * CountStatus(results, "CONTRADICTED")
                   + 2 * CountStatus(results, "UNVERIFIABLE")
        penalty == IF 5 * CountFlagged(results) < 20 THEN 5 * CountFlagged(results) ELSE 20
        value == 100 * weights - 10 * penalty * n
    IN  IF value < 0 THEN 0 ELSE value

AllHaveStatus(results, status) ==
    \A i \in 1..Len(results) : results[i].status = status

\* C8 as stated: the trust score equals the formula
\* max(0, (sum of weights / count) * 100 - min(20, 5 * flagged)).
C8_ScoreEqualsFormula ==
    pc = "done" =>
        trust_report.trust_score * Len(validation_results)
            = FormulaTimesN(validation_results)

\* C8, amended: the trust score is that formula rounded to one decimal (it
\* is within 0.05 of it), it lies in [0, 100], the empty list gives 0.0, an
\* all-CONTRADICTED list gives 0.0 and an all-SUPPORTED list gives 100
\* minus the penalty.
C8_ScoreIsRoundedFormula ==
    pc = "done" =>
        LET n == Len(validation_results)
            score == trust_report.trust_score
            flagged == CountFlagged(validation_results)
        IN  /\ 2 * (score * n - FormulaTimesN(validation_results)) <= n
            /\ 2 * (FormulaTimesN(validation_results) - score * n) <= n
            /\ score >= 0 /\ score <= 1000
            /\ n = 0 => score = 0
            /\ AllHaveStatus(validation_results, "CONTRADICTED") => score = 0
            /\ (n > 0 /\ AllHaveStatus(validation_results, "SUPPORTED"))
                  => score = 1000 - 10 * (IF 5 * flagged < 20 THEN 5 * flagged ELSE 20)

\* a scored list whose formula value (73.33...) is not a one-decimal number
C8_Witness ==
    /\ pc = "done"
    /\ Len(validation_results) = 3
    /\ CountStatus(validation_results, "SUPPORTED") = 2
    /\ CountStatus(validation_results, "UNVERIFIABLE") = 1
    /\ CountFlagged(validation_results) = 0
    /\ trust_report.trust_score = 733

\* the same results with has_contradictions set on the first j of them only
Reflag(results, j) ==
    [i \in 1..Len(results) |-> [results[i] EXCEPT !.has_contradictions = (i <= j)]]

\* C9: the contradiction penalty never decreases with the number of results
\* that have has_contradictions and never exceeds 20: of two lists with the
\* same statuses the one with more such results never has the higher score
\* (and with as many, the same score), and from 4 such results on, so with
\* 5 and with 9, the penalty is exactly 20 points.
C9_PenaltyMonotoneCapped ==
    pc = "done" =>
        LET n == Len(validation_results)
            flagged == CountFlagged(validation_results)
        IN  /\ ContradictionPenalty(flagged) <= 20
            /\ ContradictionPenalty(flagged) <= ContradictionPenalty(flagged + 1)
            /\ flagged \in {5, 9} => ContradictionPenalty(flagged) = 20
            /\ flagged \in {5, 9} =>
                  \E tie_up \in BOOLEAN :
                     LET unflagged ==
                            calculate_trust_score(Reflag(validation_results, 0), tie_up)
                     IN  trust_report.trust_score
                            = (IF unflagged >= 200 THEN unflagged - 200 ELSE 0)
            /\ \A tie_up \in BOOLEAN :
                  LET score == calculate_trust_score(validation_results, tie_up)
                  IN  \A j \in 0..n :
                         LET other ==
                                calculate_trust_score(Reflag(validation_results, j), tie_up)
                         IN  /\ j > flagged => other <= score
                             /\ j < flagged => other >= score
                             /\ j = flagged => other = score

\* a scored list of 9 results that all have has_contradictions
C9_Witness ==
    /\ pc = "done"
    /\ Len(validation_results) = 9
    /\ CountFlagged(validation_results) = 9
    /\ CountStatus(validation_results, "SUPPORTED") = 5
    /\ trust_report.trust_score < 1000

\* C10: the results mapping of the TrustReport has exactly the four status
\* keys, each count is the number of results with that status, the counts
\* sum to claim_count, and claim_count is the length of the result list.
C10_FourCountsSumToClaimCount ==
    pc = "done" =>
        /\ DOMAIN trust_report.results = Statuses
        /\ \A status \in Statuses :
              trust_report.results[status] = CountStatus(validation_results, status)
        /\ trust_report.results["SUPPORTED"] + trust_report.results["PARTIALLY_SUPPORTED"]
             + trust_report.results["CONTRADICTED"] + trust_report.results["UNVERIFIABLE"]
               = trust_report.claim_count
        /\ trust_report.claim_count = Len(validation_results)

\* a report over three results in which two statuses do not occur
C10_Witness ==
    /\ pc = "done"
    /\ trust_report.claim_count = 3
    /\ trust_report.results["SUPPORTED"] = 2
    /\ trust_report.results["UNVERIFIABLE"] = 1
    /\ trust_report.results["CONTRADICTED"] = 0
    /\ trust_report.results["PARTIALLY_SUPPORTED"] = 0


\* C11: has_contradictions of the TrustReport is true exactly when at least
\* one of the results it was built from has has_contradictions.
C11_ReportFlagIffSomeResultFlag ==
    pc = "done" /\ trust_report # None =>
        (trust_report.has_contradictions <=> CountFlagged(validation_results) > 0)

\* a report with the flag, built from three results of which only the last
\* has has_contradictions and none is CONTRADICTED
C11_Witness ==
    /\ pc = "done"
    /\ Len(validation_results) = 3
    /\ trust_report.has_contradictions
    /\ CountFlagged(validation_results) = 1
    /\ validation_results[3].has_contradictions
    /\ CountStatus(validation_results, "CONTRADICTED") = 0


\* the judgment calls that failed: the capability threw, or it returned
\* None and the assignment of result.claim_id threw
FailedJudgeCalls == {k \in JudgeCalls : calls[k].verdict.kind # "result"}

\* C12: when the judgment call for a claim with evidence fails, the claim
\* gets a result with UNVERIFIABLE, confidence 0.0 and has_contradictions
\* false; nothing is raised, so every claim handled so far has its result
\* and validate_all_claims returns only after the last claim.
C12_FailedJudgmentFallsBack ==
    /\ Len(validation_results) = vi
    /\ pc # "validate" => vi = Len(Claims)
    /\ \A k \in FailedJudgeCalls :
          \E i \in 1..Len(validation_results) :
              /\ Claims[i].id = calls[k].claim_id
              /\ claim_sources[i] # <<>>
              /\ validation_results[i].claim_id = Claims[i].id
              /\ validation_results[i].status = "UNVERIFIABLE"
              /\ validation_results[i].confidence = 0
              /\ ~validation_results[i].has_contradictions

\* the judgment of the first claim threw, and the second claim was then
\* judged CONTRADICTED by the capability
C12_Witness ==
    /\ pc # "validate"
    /\ Len(validation_results) = 2
    /\ \E k \in FailedJudgeCalls :
          calls[k].claim_id = Claims[1].id /\ calls[k].verdict.kind = "raise"
    /\ validation_results[1].status = "UNVERIFIABLE"
    /\ validation_results[2].status = "CONTRADICTED"


\* extraction gave at least one claim and no source
ClaimsWithoutSources ==
    /\ ~NothingExtracted
    /\ extracted.sources = <<>>

\* C13: when extraction yields at least one claim and an empty source
\* list, the scraping and the judgment capability are never invoked, every
\* claim's result is UNVERIFIABLE, and the returned TrustReport has
\* trust_score 20.0 and has_contradictions false.
C13_NoSourcesAllUnverifiable ==
    ClaimsWithoutSources =>
        /\ ScrapeCalls = {}
        /\ JudgeCalls = {}
        /\ pc # "fetch"
        /\ \A i \in 1..Len(validation_results) :
              validation_results[i].status = "UNVERIFIABLE"
        /\ pc = "done" =>
              /\ ret # None
              /\ Len(ret.validation_results) = Len(Claims)
              /\ \A i \in 1..Len(Claims) :
                    /\ ret.validation_results[i].claim_id = Claims[i].id
                    /\ ret.validation_results[i].status = "UNVERIFIABLE"
              /\ ret.trust_report.trust_score = 200
              /\ ~ret.trust_report.has_contradictions

\* a finished run with two claims, one of them citing a url, and no source
C13_Witness ==
    /\ pc = "done"
    /\ ClaimsWithoutSources
    /\ Len(Claims) = 2
    /\ Claims[1].source_urls # <<>>
    /\ ret.trust_report.claim_count = 2


\* confidence, in tenths, within [0.0, 1.0]
ConfidenceInRange(result) == result.confidence >= 0 /\ result.confidence <= 10

\* C14: every ValidationResult returned by validate_claim, and so every
\* result in the list returned by validate_report, has confidence within
\* [0, 1], whatever value the judgment capability returned.
C14_ConfidenceInRange ==
    /\ \A i \in 1..Len(validation_results) : ConfidenceInRange(validation_results[i])
    /\ (pc = "done" /\ ret # None) =>
          \A i \in 1..Len(ret.validation_results) :
              ConfidenceInRange(ret.validation_results[i])


ExtractCalls == {k \in 1..Len(calls) : calls[k].cap = "extract"}

\* the position in the claim list of the claim with this id
ClaimIndex(claim_id) == CHOOSE i \in 1..Len(Claims) : Claims[i].id = claim_id

\* C15: the capability calls of a run are ordered: exactly one extraction
\* call first; then one scrape call per source in source-list order; then
\* judgment calls in claim-list order, at most one per claim; no judgment
\* call is made before the last source has been scraped, and the report is
\* generated only after the last claim has been validated.
C15_CallsSequentialOrdered ==
    LET scrapes == Cardinality(ScrapeCalls)
    IN  /\ (pc = "extract") <=> (calls = <<>>)
        /\ calls # <<>> => ExtractCalls = {1}
        /\ ScrapeCalls = 2..(1 + scrapes)
        /\ JudgeCalls = (2 + scrapes)..Len(calls)
        /\ \A k \in ScrapeCalls :
              /\ k - 1 <= Len(extracted.sources)
              /\ calls[k].url = extracted.sources[k - 1].url
        /\ pc = "fetch" => scrapes = Len(sources_with_content)
        /\ (JudgeCalls # {} \/ pc \in {"validate", "report"}
                \/ (pc = "done" /\ ret # None))
              => scrapes = Len(extracted.sources)
        /\ \A k \in JudgeCalls :
              /\ \E i \in 1..vi : Claims[i].id = calls[k].claim_id
              /\ \A l \in JudgeCalls :
                    k < l => ClaimIndex(calls[k].claim_id) < ClaimIndex(calls[l].claim_id)
        /\ (pc = "validate" /\ vi < Len(Claims)) => trust_report = None
        /\ trust_report # None =>
              /\ vi = Len(Claims)
              /\ Len(validation_results) = Len(Claims)

\* a finished run of five calls: the extraction, the scrapes of two sources
\* and the judgments of two claims
C15_Witness ==
    /\ pc = "done"
    /\ trust_report # None
    /\ Len(calls) = 5
    /\ Cardinality(ScrapeCalls) = 2
    /\ Cardinality(JudgeCalls) = 2
    /\ calls[2].url # calls[3].url
    /\ calls[4].claim_id # calls[5].claim_id


\* the sources that a later source of the list repeats the url of
EarlierDuplicates ==
    {j \in 1..Len(extracted.sources) :
        \E j2 \in (j + 1)..Len(extracted.sources) :
            extracted.sources[j2].url = extracted.sources[j].url}

\* the retrieval of this run has returned
Fetched == pc \in {"validate", "report"} \/ (pc = "done" /\ ret # None)

\* C16: when several sources have the same url, a claim citing the url is
\* linked only to the last of them; the earlier ones are still fetched,
\* but their ids are in no claim's source_ids and in no evidence set.
C16_DuplicateUrlLastWins ==
    extracted # None =>
        /\ \A j \in EarlierDuplicates :
              LET source == extracted.sources[j]
              IN  /\ \A i \in 1..Len(Claims) : ~InSeq(source.id, Claims[i].source_ids)
                  /\ \A i \in 1..Len(claim_sources) :
                        \A e \in 1..Len(claim_sources[i]) :
                            claim_sources[i][e].id # source.id
                  /\ Fetched =>
                        /\ calls[j + 1].cap = "scrape"
                        /\ calls[j + 1].url = source.url
                        /\ sources_with_content[j].id = source.id
                        /\ sources_with_content[j].content # NoneStr
        /\ \A i \in 1..Len(Claims) :
              \A j \in 1..Len(extracted.sources) :
                  (j \notin EarlierDuplicates
                      /\ InSeq(extracted.sources[j].url, Claims[i].source_urls))
                    => InSeq(extracted.sources[j].id, Claims[i].source_ids)

\* two sources with the same url, both fetched with the same page, and a
\* claim citing the url that was judged on the second source alone
C16_Witness ==
    /\ pc = "done"
    /\ ret # None
    /\ EarlierDuplicates = {1}
    /\ sources_with_content[1].content = GoodPage
    /\ sources_with_content[2].content = GoodPage
    /\ Claims[1].source_urls = <<extracted.sources[1].url>>
    /\ Claims[1].source_ids = <<extracted.sources[2].id>>
    /\ claim_sources[1] = <<sources_with_content[2]>>
    /\ \E k \in JudgeCalls : calls[k].claim_id = Claims[1].id


\* C17: in the ExtractedReport that validate_report returns, the i-th entry
\* of a claim's source_ids is the id of the source whose url is the i-th
\* entry of its source_urls, so every (id, url) pair the caller shows for
\* a claim pairs an id with the url of its own source.
C17_IdsPairedWithOwnUrls ==
    (pc = "done" /\ ret # None) =>
        \A i \in 1..Len(ret.extracted.claims) :
            LET claim == ret.extracted.claims[i]
                shown == SourcesUsedForClaim(claim)
            IN  /\ \A k \in 1..Len(claim.source_ids) :
                      UrlOfId(claim.source_ids[k]) = claim.source_urls[k]
                /\ \A k \in 1..Len(shown) : UrlOfId(shown[k][1]) = shown[k][2]

====
